---- MODULE Spec2Model ----
(***************************************************************************)
(* A model of modules/libClarisse/libClarisse.py: helper functions that    *)
(* wrap the scripting interface ("ix") of the host application.            *)
(*                                                                         *)
(* Python strings are sequences of one-character strings, so that replace, *)
(* split, endswith and os.path.abspath are computed and not assumed.       *)
(* Every function of the library is one action: the whole call, with the   *)
(* host calls it makes recorded, in order, in last.calls.                  *)
(***************************************************************************)
EXTENDS Integers, Sequences, FiniteSets, TLC

VARIABLES
    items,      \* host namespace: the URLs, as the host resolves them, that exist
    hostCollapses, \* whether the host ignores the empty segments of a URL
    copies,     \* host: full name of an instance -> its state
    nodes,      \* host: name of an object of the metadata context -> its state
    files,      \* file system: path -> what is there
    last        \* the last call of a library function: arguments and outcome

vars == <<items, hostCollapses, copies, nodes, files, last>>

\* ------------------------------------------------------------------ bounds
MaxPieces == 3
MaxSegments == 2
MaxContexts == 2
MaxData == 2
MaxCopies == 2
MaxRevs == 2

\* ----------------------------------------------------------------- strings
PDIR == <<"$", "P", "D", "I", "R">>
DotProject == <<".", "p", "r", "o", "j", "e", "c", "t">>
DotAbc == <<".", "a", "b", "c">>
DotUsd == <<".", "u", "s", "d">>
Scheme == <<"p", "r", "o", "j", "e", "c", "t", ":", "/", "/">>
RootUrl == <<"p", "r", "o", "j", "e", "c", "t", ":", "/">>
Slash == <<"/">>

\* s[i:] of python, i counted from 1
Drop(s, i) == SubSeq(s, i, Len(s))

\* s.startswith(pat)
StartsWith(s, pat) ==
    /\ Len(pat) <= Len(s)
    /\ SubSeq(s, 1, Len(pat)) = pat

\* s.endswith(suf)
EndsWith(s, suf) ==
    /\ Len(suf) <= Len(s)
    /\ SubSeq(s, Len(s) - Len(suf) + 1, Len(s)) = suf

\* old in s
Contains(s, old) ==
    \E i \in 1..Len(s) : StartsWith(Drop(s, i), old)

\* s.replace(old, new): every non-overlapping occurrence, left to right
RECURSIVE Replace(_, _, _)
Replace(s, old, new) ==
    IF s = <<>> THEN <<>>
    ELSE IF StartsWith(s, old)
         THEN new \o Replace(Drop(s, Len(old) + 1), old, new)
         ELSE <<Head(s)>> \o Replace(Tail(s), old, new)

\* s.split("/"): the components between slashes, empty ones included
RECURSIVE SplitFrom(_, _)
SplitFrom(s, cur) ==
    IF s = <<>> THEN <<cur>>
    ELSE IF Head(s) = "/"
         THEN <<cur>> \o SplitFrom(Tail(s), <<>>)
         ELSE SplitFrom(Tail(s), Append(cur, Head(s)))

Split(s) == SplitFrom(s, <<>>)

\* "/".join(comps)
RECURSIVE Join(_)
Join(comps) ==
    IF comps = <<>> THEN <<>>
    ELSE IF Len(comps) = 1 THEN comps[1]
    ELSE comps[1] \o Slash \o Join(Tail(comps))

\* the concatenation of a sequence of strings
RECURSIVE Concat(_)
Concat(ps) ==
    IF ps = <<>> THEN <<>> ELSE Head(ps) \o Concat(Tail(ps))

\* sequences over S of length at most n
SeqUpTo(S, n) == UNION {[1..k -> S] : k \in 0..n}

\* ------------------------------------------------------------------ os.path
\* s.rstrip("/")
RECURSIVE RStripSlash(_)
RStripSlash(s) ==
    IF s # <<>> /\ s[Len(s)] = "/" THEN RStripSlash(SubSeq(s, 1, Len(s) - 1))
    ELSE s

AllSlashes(s) == \A i \in 1..Len(s) : s[i] = "/"

\* index of the last "/" of s, 0 when there is none (p.rfind("/") + 1)
LastSlash(s) ==
    IF \E i \in 1..Len(s) : s[i] = "/"
    THEN CHOOSE i \in 1..Len(s) : s[i] = "/" /\ \A j \in (i + 1)..Len(s) : s[j] # "/"
    ELSE 0

\* os.path.split(p)[0]
SplitHead(p) ==
    LET head == SubSeq(p, 1, LastSlash(p))
    IN  IF head # <<>> /\ ~AllSlashes(head) THEN RStripSlash(head) ELSE head

\* the loop of os.path.normpath over the components
RECURSIVE NormComps(_, _, _)
NormComps(comps, new, rooted) ==
    IF comps = <<>> THEN new
    ELSE LET comp == Head(comps)
             rest == Tail(comps)
         IN  IF comp = <<>> \/ comp = <<".">>
             THEN NormComps(rest, new, rooted)
             ELSE IF \/ comp # <<".", ".">>
                     \/ (~rooted /\ new = <<>>)
                     \/ (new # <<>> /\ new[Len(new)] = <<".", ".">>)
                  THEN NormComps(rest, Append(new, comp), rooted)
                  ELSE IF new # <<>>
                       THEN NormComps(rest, SubSeq(new, 1, Len(new) - 1), rooted)
                       ELSE NormComps(rest, new, rooted)

\* os.path.normpath(path)
NormPath(path) ==
    IF path = <<>> THEN <<".">>
    ELSE LET rooted == StartsWith(path, Slash)
             lead == IF ~rooted THEN <<>>
                     ELSE IF StartsWith(path, <<"/", "/">>)
                             /\ ~StartsWith(path, <<"/", "/", "/">>)
                          THEN <<"/", "/">>
                          ELSE Slash
             out == lead \o Join(NormComps(Split(path), <<>>, rooted))
         IN  IF out = <<>> THEN <<".">> ELSE out

\* os.path.join(cwd, path)
PathJoin(a, b) ==
    IF StartsWith(b, Slash) THEN b
    ELSE IF a = <<>> \/ EndsWith(a, Slash) THEN a \o b
    ELSE a \o Slash \o b

\* os.path.abspath(path) in the working directory cwd
AbsPath(path, cwd) ==
    NormPath(IF StartsWith(path, Slash) THEN path ELSE PathJoin(cwd, path))

\* -------------------------------------------------------------- pdir_to_path
pdir_to_path(path, project_p, cwd) ==
    LET proj == IF EndsWith(project_p, DotProject) THEN SplitHead(project_p)
                ELSE project_p
    IN  AbsPath(Replace(path, PDIR, proj), cwd)

\* the inputs: paths made of at most MaxPieces pieces
PathPieces == {PDIR, Slash, <<"a">>, <<".">>}
Paths == {Concat(ps) : ps \in SeqUpTo(PathPieces, MaxPieces)}
ProjectPaths == { <<"/", "p">>, <<"/", "p", "/", "s">> \o DotProject,
                  <<"s">> \o DotProject, <<"/", "p", "/">> }
WorkDirs == { <<"/">>, <<"/", "w">> }

NoCall == [op |-> "none"]

\* the host and the file system, where a specification does not use them
HostIdle ==
    /\ items = {}
    /\ hostCollapses = FALSE
    /\ copies = <<>>
    /\ nodes = <<>>
    /\ files = <<>>

HostUnchanged == UNCHANGED <<items, hostCollapses, copies, nodes, files>>

\* a call of pdir_to_path: the arguments, then the value returned
InitPdir ==
    /\ HostIdle
    /\ \E path \in Paths, project_p \in ProjectPaths, cwd \in WorkDirs :
          last = [op |-> "pdir_to_path", state |-> "called", path |-> path,
                  project_p |-> project_p, cwd |-> cwd]

Call_pdir_to_path ==
    /\ last.op = "pdir_to_path" /\ last.state = "called"
    /\ last' = [last EXCEPT !.state = "returned"] @@
                [result |-> pdir_to_path(last.path, last.project_p, last.cwd)]
    /\ HostUnchanged

\* ------------------------------------------------- host arrays and queries
\* clarisse_array_to_python_list: element i for i in range(get_count())
RECURSIVE ArrayFrom(_, _)
ArrayFrom(arr, i) ==
    IF i > Len(arr) THEN <<>> ELSE <<arr[i]>> \o ArrayFrom(arr, i + 1)

clarisse_array_to_python_list(arr) == ArrayFrom(arr, 1)

\* get_external_dependencies(context): (external references, external sources)
get_external_dependencies(context) ==
    <<clarisse_array_to_python_list(context.ext_refs),
      clarisse_array_to_python_list(context.ext_sources)>>

\* the loop of contexts_are_atomic, from the first element of contexts
RECURSIVE AtomicLoop(_)
AtomicLoop(contexts) ==
    IF contexts = <<>> THEN TRUE
    ELSE LET context == Head(contexts)
         IN  IF ~context.is_context THEN AtomicLoop(Tail(contexts))
             ELSE LET deps == get_external_dependencies(context)
                  IN  IF Len(deps[1]) > 0 \/ Len(deps[2]) > 0 THEN FALSE
                      ELSE TRUE

\* contexts_are_atomic(contexts): arg.is_list tells a list from a single item
contexts_are_atomic(arg) ==
    AtomicLoop(IF arg.is_list THEN arg.v ELSE <<arg.v>>)

\* the items contexts_are_atomic is called with
DepItems == [is_context : BOOLEAN, ext_refs : {<<>>, <<"r">>},
             ext_sources : {<<>>, <<"s">>}]
AtomicArgs ==
    {[is_list |-> TRUE, v |-> l] : l \in SeqUpTo(DepItems, MaxContexts)}
        \cup {[is_list |-> FALSE, v |-> c] : c \in DepItems}

InitAtomic ==
    /\ HostIdle
    /\ \E arg \in AtomicArgs :
          last = [op |-> "contexts_are_atomic", state |-> "called", contexts |-> arg]

Call_contexts_are_atomic ==
    /\ last.op = "contexts_are_atomic" /\ last.state = "called"
    /\ last' = [last EXCEPT !.state = "returned"] @@
                [result |-> contexts_are_atomic(last.contexts)]
    /\ HostUnchanged

\* get_reference_file_path(context): the filename attribute, or TypeError
get_reference_file_path(context) ==
    IF context.is_reference
    THEN [raised |-> "", value |-> context.filename]
    ELSE [raised |-> "TypeError", value |-> <<>>]

\* faulty variant, for comparison: the test is made whether its flag is set or not
FilterStep_IgnoresFlag(acc, context, flag, ext) ==
    IF acc.raised # "" THEN acc
    ELSE IF get_reference_file_path(context).raised # ""
    THEN [acc EXCEPT !.raised = get_reference_file_path(context).raised]
    ELSE IF EndsWith(get_reference_file_path(context).value, ext)
    THEN [acc EXCEPT !.out = Append(@, context)]
    ELSE acc

\* one of the three tests of the loop body: append when the flag is set and the
\* path ends with ext; an error of get_reference_file_path ends the call
FilterStep(acc, context, flag, ext) ==
    IF acc.raised # "" \/ ~flag THEN acc
    ELSE LET p == get_reference_file_path(context)
         IN  IF p.raised # "" THEN [acc EXCEPT !.raised = p.raised]
             ELSE IF EndsWith(p.value, ext)
                  THEN [acc EXCEPT !.out = Append(@, context)]
                  ELSE acc

RECURSIVE FilterLoop(_, _, _, _, _)
FilterLoop(contexts, acc, project, abc, usd) ==
    IF contexts = <<>> \/ acc.raised # "" THEN acc
    ELSE LET context == Head(contexts)
             next == IF context.is_reference
                     THEN FilterStep(
                              FilterStep(
                                  FilterStep(acc, context, project, DotProject),
                                  context, abc, DotAbc),
                              context, usd, DotUsd)
                     ELSE acc
         IN  FilterLoop(Tail(contexts), next, project, abc, usd)

filter_contexts_to_references_only(contexts, project, abc, usd) ==
    FilterLoop(contexts, [raised |-> "", out |-> <<>>], project, abc, usd)

\* the contexts filter_contexts_to_references_only is called with
FileNames == { <<"f">> \o DotProject, <<"f">> \o DotAbc, <<"f">> \o DotUsd,
               <<"f">> \o DotUsd \o <<"a">>, <<"f">> \o DotAbc \o DotUsd,
               <<"a", "b", "c">> }
RefItems == [is_reference : BOOLEAN, filename : FileNames]

InitFilter ==
    /\ HostIdle
    /\ \E l \in SeqUpTo(RefItems, MaxContexts), project \in BOOLEAN,
          abc \in BOOLEAN, usd \in BOOLEAN :
          last = [op |-> "filter_contexts_to_references_only", state |-> "called",
                  contexts |-> l, project |-> project, abc |-> abc, usd |-> usd]

Call_filter_contexts_to_references_only ==
    /\ last.op = "filter_contexts_to_references_only" /\ last.state = "called"
    /\ LET r == filter_contexts_to_references_only(
                    last.contexts, last.project, last.abc, last.usd)
       IN  last' = [last EXCEPT !.state = IF r.raised = "" THEN "returned"
                                          ELSE "raised"] @@
                   [result |-> r.out, raised |-> r.raised]
    /\ HostUnchanged

InitPure == InitPdir \/ InitAtomic \/ InitFilter

NextPure ==
    \/ Call_pdir_to_path
    \/ Call_contexts_are_atomic
    \/ Call_filter_contexts_to_references_only

SpecPure == InitPure /\ [][NextPure]_vars

\* ----------------------------------------------------------- host namespace
\* a URL with its empty path segments dropped: project:///a//b -> project://a/b
Collapse(url) ==
    LET comps == SelectSeq(Split(Drop(url, Len(RootUrl) + 1)), LAMBDA c : c # <<>>)
    IN  IF ~StartsWith(url, RootUrl) THEN url
        ELSE IF comps = <<>> THEN RootUrl ELSE RootUrl \o Slash \o Join(comps)

\* the item a URL names for the host: the URL as written, or collapsed
Resolve(url, collapses) == IF collapses THEN Collapse(url) ELSE url

\* ix.item_exists(url): the item's handle (its resolved URL), or None
None == <<"None">>
ix_item_exists(url, its, collapses) ==
    IF Resolve(url, collapses) \in its THEN Resolve(url, collapses) ELSE None

\* the loop of create_context over the tokens: st is the url built so far, the
\* namespace, the host calls made and the context held
RECURSIVE CreateLoop(_, _, _)
CreateLoop(tokens, st, collapses) ==
    IF tokens = <<>> THEN st
    ELSE LET url == st.url \o Slash \o Head(tokens)
             found == ix_item_exists(url, st.items, collapses)
             asked == Append(st.calls, [fn |-> "item_exists", url |-> url])
         IN  IF found # None
             THEN CreateLoop(Tail(tokens),
                      [url |-> url, items |-> st.items, calls |-> asked,
                       context |-> found], collapses)
             ELSE CreateLoop(Tail(tokens),
                      [url |-> url,
                       items |-> st.items \cup {Resolve(url, collapses)},
                       calls |-> Append(asked, [fn |-> "create_context", url |-> url]),
                       context |-> Resolve(url, collapses)], collapses)

\* create_context(context_url) on the namespace its
create_context(context_url, its, collapses) ==
    LET tokens == Split(Replace(context_url, Scheme, Slash))
    IN  CreateLoop(tokens,
            [url |-> RootUrl, items |-> its,
             calls |-> <<[fn |-> "item_exists", url |-> RootUrl]>>,
             context |-> ix_item_exists(RootUrl, its, collapses)], collapses)

\* the URLs the library is called with: s1/.../sn, with the scheme or without
SegNames == { <<"s">>, <<"t">> }
SegLists == SeqUpTo(SegNames, MaxSegments) \ {<<>>}
FullUrls == {Scheme \o Join(l) : l \in SegLists}
ContextUrls == {Join(l) : l \in SegLists} \cup FullUrls

SceneUrl == Scheme \o <<"s">>

Call_create_context ==
    /\ \E context_url \in ContextUrls :
          LET r == create_context(context_url, items, hostCollapses)
          IN  /\ items' = r.items
              /\ last' = [op |-> "create_context", state |-> "returned",
                          context_url |-> context_url, before |-> items,
                          calls |-> r.calls, result |-> r.context]
    /\ UNCHANGED <<hostCollapses, copies, nodes, files>>

\* ------------------------------------------------------------------ copy_node
\* the name the host gives an instance of node in context ctx: the node's name,
\* with a 1 appended while the name is taken
RECURSIVE FreeName(_, _)
FreeName(name, taken) ==
    IF name \in taken THEN FreeName(name \o <<"1">>, taken) ELSE name

\* what the host's SetValues stores for a value: a string as it is; for another
\* object it refuses (TypeError) or stores its text
MethodText == <<"<", "m", ">">>
SetValuesOutcomes(value) ==
    IF value.type = "str" THEN {[raised |-> "", stored |-> value.v]}
    ELSE {[raised |-> "TypeError", stored |-> <<>>],
          [raised |-> "", stored |-> MethodText]}

\* the value copy_node hands to SetValues: node.get_full_name, not called
BreadcrumbValue(node) == [type |-> "method", of |-> node.full_name]

SourceNodes == {[name |-> <<"n">>, full_name |-> SceneUrl \o <<"/", "n">>]}
Sections == { <<"C", "L", "A", "M">>, <<"X">> }

Call_copy_node ==
    /\ Cardinality(DOMAIN copies) < MaxCopies
    /\ \E node \in SourceNodes, dest_context_url \in FullUrls,
          leave_breadcrumb \in BOOLEAN, breadcrumb_section \in Sections :
          LET found == ix_item_exists(dest_context_url, items, hostCollapses)
              made == create_context(dest_context_url, items, hostCollapses)
              dest_context == IF found # None THEN found ELSE made.context
              its == IF found # None THEN items ELSE made.items
              calls1 == <<[fn |-> "item_exists", url |-> dest_context_url]>>
                            \o (IF found # None THEN <<>> ELSE made.calls)
              instance == FreeName(dest_context \o Slash \o node.name,
                                    DOMAIN copies \cup {n.full_name : n \in SourceNodes})
              calls2 == calls1 \o <<[fn |-> "add_instance", url |-> dest_context],
                                    [fn |-> "make_local", url |-> instance]>>
              plain == [source |-> node.full_name, context |-> dest_context,
                        local |-> TRUE, attrs |-> <<>>]
          IN  /\ items' = its
              /\ IF ~leave_breadcrumb
                 THEN /\ copies' = copies @@ (instance :> plain)
                      /\ last' = [op |-> "copy_node", state |-> "returned",
                                  node |-> node, dest_context_url |-> dest_context_url,
                                  leave_breadcrumb |-> leave_breadcrumb,
                                  breadcrumb_section |-> breadcrumb_section,
                                  before |-> items, calls |-> calls2,
                                  result |-> instance]
                 ELSE \E o \in SetValuesOutcomes(BreadcrumbValue(node)) :
                      /\ copies' = copies @@ (instance :>
                             [plain EXCEPT !.attrs =
                                 <<[name |-> "copied_from", type |-> "TYPE_STRING",
                                    section |-> breadcrumb_section,
                                    value |-> o.stored]>>])
                      /\ last' = [op |-> "copy_node",
                                  state |-> IF o.raised = "" THEN "returned"
                                            ELSE "raised",
                                  node |-> node, dest_context_url |-> dest_context_url,
                                  leave_breadcrumb |-> leave_breadcrumb,
                                  breadcrumb_section |-> breadcrumb_section,
                                  before |-> items,
                                  calls |-> calls2 \o
                                      <<[fn |-> "CreateCustomAttribute", url |-> instance],
                                        [fn |-> "SetValues", url |-> instance]>>,
                                  result |-> instance]
    /\ UNCHANGED <<hostCollapses, nodes, files>>

InitContext ==
    /\ items = {RootUrl, SceneUrl}
    /\ hostCollapses \in BOOLEAN
    /\ copies = <<>>
    /\ nodes = <<>>
    /\ files = <<>>
    /\ last = NoCall

\* calls of create_context, one after the other
NextContext == Call_create_context
SpecContext == InitContext /\ [][NextContext]_vars

\* calls of copy_node, one after the other, on a host that ignores the empty
\* segments of a URL: create_context makes the destination context there
InitCopy == InitContext /\ hostCollapses
NextCopy == Call_copy_node
SpecCopy == InitCopy /\ [][NextCopy]_vars

\* ------------------------------------------------------------ python values
UpperLetters == <<"A", "B", "C", "D", "E", "F", "G", "H", "I", "J", "K", "L", "M",
                  "N", "O", "P", "Q", "R", "S", "T", "U", "V", "W", "X", "Y", "Z">>
LowerLetters == <<"a", "b", "c", "d", "e", "f", "g", "h", "i", "j", "k", "l", "m",
                  "n", "o", "p", "q", "r", "s", "t", "u", "v", "w", "x", "y", "z">>

LowerChar(c) ==
    IF \E i \in 1..26 : UpperLetters[i] = c
    THEN LowerLetters[CHOOSE i \in 1..26 : UpperLetters[i] = c] ELSE c

UpperChar(c) ==
    IF \E i \in 1..26 : LowerLetters[i] = c
    THEN UpperLetters[CHOOSE i \in 1..26 : LowerLetters[i] = c] ELSE c

\* s.lower() and s.upper()
Lower(s) == [i \in 1..Len(s) |-> LowerChar(s[i])]
Upper(s) == [i \in 1..Len(s) |-> UpperChar(s[i])]

Digits == <<"0", "1", "2", "3", "4", "5", "6", "7", "8", "9">>
IsDigit(c) == \E i \in 1..10 : Digits[i] = c
DigitValue(c) == (CHOOSE i \in 1..10 : Digits[i] = c) - 1
AllDigits(s) == s # <<>> /\ \A i \in 1..Len(s) : IsDigit(s[i])

RECURSIVE DigitsValue(_)
DigitsValue(s) ==
    IF s = <<>> THEN 0 ELSE DigitsValue(SubSeq(s, 1, Len(s) - 1)) * 10 + DigitValue(s[Len(s)])

\* a python value: a str, a list of str, or a host object
PyStr(s) == [t |-> "str", s |-> s]
PyList(l) == [t |-> "list", l |-> l]
PyObj(n) == [t |-> "obj", n |-> n]

\* str(value)
ToStr(value) ==
    IF value.t = "str" THEN value.s
    ELSE IF value.t = "list" THEN <<"[">> \o Concat(value.l) \o <<"]">>
    ELSE <<"<">> \o value.n \o <<">">>

\* int(value): the number, or the error raised
ToInt(value) ==
    IF value.t # "str" THEN [raised |-> "TypeError"]
    ELSE IF AllDigits(value.s) THEN [raised |-> "", v |-> [t |-> "int", n |-> DigitsValue(value.s)]]
    ELSE [raised |-> "ValueError"]

\* float(value): the number (whole part and decimals), or the error raised
ToFloat(value) ==
    IF value.t # "str" THEN [raised |-> "TypeError"]
    ELSE LET s == value.s
             dot == IF \E i \in 1..Len(s) : s[i] = "."
                    THEN CHOOSE i \in 1..Len(s) : s[i] = "." /\ \A j \in 1..(i - 1) : s[j] # "."
                    ELSE Len(s) + 1
             whole == SubSeq(s, 1, dot - 1)
             frac == SubSeq(s, dot + 1, Len(s))
         IN  IF /\ whole \o frac # <<>>
                /\ \A i \in 1..Len(whole) : IsDigit(whole[i])
                /\ \A i \in 1..Len(frac) : IsDigit(frac[i])
             THEN [raised |-> "",
                   v |-> [t |-> "float", n |-> DigitsValue(whole), frac |-> frac]]
             ELSE [raised |-> "ValueError"]

\* value[i], i counted from 0: a str's character, a list's element, or the error
Index(value, i) ==
    IF value.t = "str"
    THEN IF i < Len(value.s) THEN [raised |-> "", v |-> PyStr(<<value.s[i + 1]>>)]
         ELSE [raised |-> "IndexError"]
    ELSE IF value.t = "list"
    THEN IF i < Len(value.l) THEN [raised |-> "", v |-> PyStr(value.l[i + 1])]
         ELSE [raised |-> "IndexError"]
    ELSE [raised |-> "TypeError"]

\* ------------------------------------------------------------ set_custom_attr
T_bool == <<"b", "o", "o", "l">>
T_boolean == <<"b", "o", "o", "l", "e", "a", "n">>
T_long == <<"l", "o", "n", "g">>
T_integer == <<"i", "n", "t", "e", "g", "e", "r">>
T_double == <<"d", "o", "u", "b", "l", "e">>
T_string == <<"s", "t", "r", "i", "n", "g">>
T_reference == <<"r", "e", "f", "e", "r", "e", "n", "c", "e">>
T_percentage == <<"p", "e", "r", "c", "e", "n", "t", "a", "g", "e">>
T_distance == <<"d", "i", "s", "t", "a", "n", "c", "e">>
T_angle == <<"a", "n", "g", "l", "e">>
T_scale == <<"s", "c", "a", "l", "e">>
T_frame == <<"f", "r", "a", "m", "e">>
T_subframe == <<"s", "u", "b", "f", "r", "a", "m", "e">>
T_l == <<"l">>
T_la == <<"l", "a">>
T_rgb == <<"r", "g", "b">>
T_rgba == <<"r", "g", "b", "a">>
T_filein == <<"f", "i", "l", "e", "i", "n">>
T_fileout == <<"f", "i", "l", "e", "o", "u", "t">>
T_pixel == <<"p", "i", "x", "e", "l">>
T_subpixel == <<"s", "u", "b", "p", "i", "x", "e", "l">>

TrueWords == { <<"T", "R", "U", "E">>, <<"T">>, <<"Y", "E", "S">>, <<"Y">>,
               <<"1">>, <<"O", "N">> }

\* faulty variant, for comparison: a type name that is not known is taken for "string"
UnknownBranch_AsString ==
    [otype |-> "TYPE_STRING", hint |-> "DEFAULT", set |-> "set_string",
     conv |-> "str", count |-> 0]

\* the else branch of set_custom_attr: no attribute, TypeError is raised
UnknownBranch == [otype |-> "", hint |-> "", set |-> "", conv |-> "", count |-> 0]

\* the branch of set_custom_attr for a type name (already lower case): the host
\* attribute type and visual hint it adds, and how it sets the value
\*   set    the setter called
\*   conv   the conversion applied to value before the call
\*   count  the number of values (0: set_value_count is not called)
Branch(attr_type) ==
    CASE attr_type \in {T_bool, T_boolean} ->
            [otype |-> "TYPE_BOOL", hint |-> "DEFAULT", set |-> "set_bool", conv |-> "truth", count |-> 0]
      [] attr_type \in {T_long, T_integer} ->
            [otype |-> "TYPE_LONG", hint |-> "DEFAULT", set |-> "set_long", conv |-> "int", count |-> 0]
      [] attr_type = T_double ->
            [otype |-> "TYPE_DOUBLE", hint |-> "DEFAULT", set |-> "set_long", conv |-> "float", count |-> 0]
      [] attr_type = T_string ->
            [otype |-> "TYPE_STRING", hint |-> "DEFAULT", set |-> "set_string", conv |-> "str", count |-> 0]
      [] attr_type = T_reference ->
            [otype |-> "TYPE_REFERENCE", hint |-> "DEFAULT", set |-> "set_object", conv |-> "none", count |-> 0]
      [] attr_type = T_percentage ->
            [otype |-> "TYPE_DOUBLE", hint |-> "PERCENTAGE", set |-> "set_double", conv |-> "float", count |-> 0]
      [] attr_type = T_distance ->
            [otype |-> "TYPE_DOUBLE", hint |-> "DISTANCE", set |-> "set_double", conv |-> "float", count |-> 0]
      [] attr_type = T_angle ->
            [otype |-> "TYPE_DOUBLE", hint |-> "ANGLE", set |-> "set_double", conv |-> "float", count |-> 0]
      [] attr_type = T_scale ->
            [otype |-> "TYPE_DOUBLE", hint |-> "SCALE", set |-> "set_double", conv |-> "float", count |-> 0]
      [] attr_type = T_frame ->
            [otype |-> "TYPE_LONG", hint |-> "FRAME", set |-> "set_long", conv |-> "int", count |-> 0]
      [] attr_type = T_subframe ->
            [otype |-> "TYPE_DOUBLE", hint |-> "SUBFRAME", set |-> "set_double", conv |-> "float", count |-> 0]
      [] attr_type = T_l ->
            [otype |-> "TYPE_DOUBLE", hint |-> "L", set |-> "set_double", conv |-> "float", count |-> 0]
      [] attr_type = T_la ->
            [otype |-> "TYPE_DOUBLE", hint |-> "LA", set |-> "set_double", conv |-> "float", count |-> 2]
      [] attr_type = T_rgb ->
            [otype |-> "TYPE_DOUBLE", hint |-> "RGB", set |-> "set_double", conv |-> "float", count |-> 3]
      [] attr_type = T_rgba ->
            [otype |-> "TYPE_DOUBLE", hint |-> "RGBA", set |-> "set_double", conv |-> "float", count |-> 4]
      [] attr_type = T_filein ->
            [otype |-> "TYPE_FILE", hint |-> "FILENAME_OPEN", set |-> "set_string", conv |-> "none", count |-> 0]
      [] attr_type = T_fileout ->
            [otype |-> "TYPE_FILE", hint |-> "FILENAME_SAVE", set |-> "set_string", conv |-> "none", count |-> 0]
      [] attr_type = T_pixel ->
            [otype |-> "TYPE_DOUBLE", hint |-> "PIXEL", set |-> "set_double", conv |-> "float", count |-> 0]
      [] attr_type = T_subpixel ->
            [otype |-> "TYPE_DOUBLE", hint |-> "SUBPIXEL", set |-> "set_double", conv |-> "float", count |-> 0]
      [] OTHER -> UnknownBranch

Recognized(attr_type) == Branch(attr_type).set # ""

\* the python type a setter of a host attribute takes
SetterTakes(set) ==
    CASE set = "set_bool" -> "bool"
      [] set = "set_long" -> "int"
      [] set = "set_double" -> "float"
      [] set = "set_string" -> "str"
      [] set = "set_object" -> "obj"

\* the host's answer to attr.<set>(arg): a value of the setter's type is stored;
\* for another one a strict host raises TypeError, a lenient one stores a float
\* as its whole part and ignores the rest
HostSet(set, arg, old, strict) ==
    IF arg.t = SetterTakes(set) THEN [raised |-> "", stored |-> arg]
    ELSE IF strict THEN [raised |-> "TypeError", stored |-> old]
    ELSE IF set = "set_long" /\ arg.t = "float"
         THEN [raised |-> "", stored |-> [t |-> "int", n |-> arg.n]]
         ELSE [raised |-> "", stored |-> old]

Unset == [t |-> "unset"]

\* the values of a multi-valued attribute, from index i: value[i] is converted
\* with float() and set with set_double(.., i); the first error ends the call
RECURSIVE SetMany(_, _, _, _, _)
SetMany(st, key, value, i, count) ==
    IF i >= count \/ st.raised # "" THEN st
    ELSE LET e == Index(value, i)
         IN  IF e.raised # "" THEN [st EXCEPT !.raised = e.raised]
             ELSE LET f == ToFloat(e.v)
                  IN  IF f.raised # "" THEN [st EXCEPT !.raised = f.raised]
                      ELSE SetMany(
                               [st EXCEPT
                                   !.attrs[key].values[i + 1] = f.v,
                                   !.calls = Append(@, [fn |-> "set_double", key |-> key,
                                                        arg |-> f.v, index |-> i])],
                               key, value, i + 1, count)

\* set_custom_attr(item, section, key, value, attr_type) on the attributes
\* attrsOf of item. host: what the host does where the library leaves it open
\*   dup     add_attribute of a name the item has: "none" (None is returned) or
\*           "replace" (the attribute is made anew)
\*   strict  whether a setter refuses a value of another type
set_custom_attr(attrsOf, section, key, value, attr_type, host) ==
    LET b == Branch(Lower(attr_type))
        added == (key :> [otype |-> b.otype, hint |-> b.hint, section |-> section,
                          values |-> <<Unset>>]) @@ attrsOf
        add == [fn |-> "add_attribute", key |-> key, otype |-> b.otype,
                hint |-> b.hint, section |-> section]
        st0 == [attrs |-> added, calls |-> <<add>>, raised |-> "", result |-> key]
        \* one value: the conversion, then the setter
        conv == CASE b.conv = "truth" ->
                        [raised |-> "",
                         v |-> [t |-> "bool", b |-> Upper(ToStr(value)) \in TrueWords]]
                  [] b.conv = "int" -> ToInt(value)
                  [] b.conv = "float" -> ToFloat(value)
                  [] b.conv = "str" -> [raised |-> "", v |-> PyStr(ToStr(value))]
                  [] OTHER -> [raised |-> "", v |-> value]
    IN  IF ~Recognized(Lower(attr_type))
        THEN [attrs |-> attrsOf, calls |-> <<>>, raised |-> "TypeError", result |-> None]
        ELSE IF key \in DOMAIN attrsOf /\ host.dup = "none"
        THEN [attrs |-> attrsOf, calls |-> <<add>>, raised |-> "AttributeError",
              result |-> None]
        ELSE IF b.count > 0
        THEN SetMany(
                 [st0 EXCEPT !.attrs[key].values = [i \in 1..b.count |-> Unset],
                             !.calls = Append(@, [fn |-> "set_value_count", key |-> key,
                                                  arg |-> b.count])],
                 key, value, 0, b.count)
        ELSE IF conv.raised # ""
        THEN [st0 EXCEPT !.raised = conv.raised]
        ELSE LET h == HostSet(b.set, conv.v, Unset, host.strict)
             IN  [st0 EXCEPT !.attrs[key].values = <<h.stored>>,
                             !.calls = Append(@, [fn |-> b.set, key |-> key,
                                                  arg |-> conv.v]),
                             !.raised = h.raised]

HostChoices == [dup : {"none", "replace"}, strict : BOOLEAN]

\* the type names set_custom_attr is called with: the recognized ones, some of
\* them in upper or mixed case, and names it does not know
KnownTypes == {T_bool, T_boolean, T_long, T_integer, T_double, T_string,
               T_reference, T_percentage, T_distance, T_angle, T_scale, T_frame,
               T_subframe, T_l, T_la, T_rgb, T_rgba, T_filein, T_fileout, T_pixel,
               T_subpixel}
UnknownTypes == { <<"f", "l", "o", "a", "t">>, <<"i", "n", "t">>,
                  <<"c", "o", "l", "o", "r">>, <<>> }
TypeNames == KnownTypes \cup UnknownTypes
                \cup {Upper(T_bool), Upper(T_double), <<"R", "g", "b">>,
                      Upper(<<"i", "n", "t">>)}

Values == {PyStr(<<"1">>), PyStr(<<"1", ".", "5">>), PyStr(<<"x">>),
           PyStr(<<"y", "e", "s">>), PyList(<<<<"1">>, <<"0">>, <<"1">>, <<"1">>>>),
           PyObj(<<"o">>)}
Keys == { <<"k">>, <<"j">> }
Section == <<"S">>

\* an item without attributes, or with one named k
ItemStates ==
    {<<>>,
     set_custom_attr(<<>>, Section, <<"k">>, PyStr(<<"o", "l", "d">>), T_string,
                     [dup |-> "replace", strict |-> TRUE]).attrs}

\* a call of set_custom_attr on the item "obj"
InitAttr ==
    /\ items = {} /\ hostCollapses = FALSE /\ copies = <<>> /\ files = <<>>
    /\ \E a \in ItemStates : nodes = ("obj" :> [attrs |-> a, locked |-> FALSE])
    /\ \E key \in {<<"k">>}, value \in Values, attr_type \in TypeNames :
          last = [op |-> "set_custom_attr", state |-> "called", section |-> Section,
                  key |-> key, value |-> value, attr_type |-> attr_type]

Call_set_custom_attr ==
    /\ last.op = "set_custom_attr" /\ last.state = "called"
    /\ \E host \in HostChoices :
          LET r == set_custom_attr(nodes["obj"].attrs, last.section, last.key,
                                   last.value, last.attr_type, host)
          IN  /\ nodes' = [nodes EXCEPT !["obj"].attrs = r.attrs]
              /\ last' = [last EXCEPT !.state = IF r.raised = "" THEN "returned"
                                                 ELSE "raised"] @@
                          [before |-> nodes["obj"].attrs, calls |-> r.calls,
                           raised |-> r.raised,
                           result |-> IF r.raised = "" THEN r.result ELSE None]
    /\ UNCHANGED <<items, hostCollapses, copies, files>>

NextAttr == Call_set_custom_attr
SpecAttr == InitAttr /\ [][NextAttr]_vars

\* ------------------------------------------------------- create_metadata_node
\* the state of the loop over data after set_custom_attr of one entry answered r
MetaStep(st, r) ==
    [attrs |-> r.attrs,
     calls |-> st.calls \o r.calls,
     raised |-> r.raised,
     done |-> IF r.raised = "" THEN st.done + 1 ELSE st.done]

\* the loop over data: set_custom_attr of each entry, its four elements passed
\* through str(); the first error ends the loop. st.done counts the entries set
RECURSIVE MetaLoop(_, _, _)
MetaLoop(data, st, host) ==
    IF data = <<>> \/ st.raised # "" THEN st
    ELSE MetaLoop(Tail(data),
                  MetaStep(st, set_custom_attr(st.attrs, ToStr(Head(data)[1]),
                                   ToStr(Head(data)[2]), PyStr(ToStr(Head(data)[3])),
                                   ToStr(Head(data)[4]), host)),
                  host)

\* faulty variant, for comparison: the node is not locked at the end
MetaEnd_NoLock(objs, name, r) ==
    [nodes |-> (name :> [attrs |-> r.attrs, locked |-> FALSE]) @@ objs,
     calls |-> r.calls, done |-> r.done, raised |-> r.raised]

\* faulty variant, for comparison: the node is locked at the end whether the loop raised or not
MetaEnd_AlwaysLocks(objs, name, r) ==
    [nodes |-> (name :> [attrs |-> r.attrs, locked |-> TRUE]) @@ objs,
     calls |-> Append(r.calls, [fn |-> "LockItems", name |-> name]),
     done |-> r.done, raised |-> r.raised]

\* the end of create_metadata_node: LockItems, unless the loop raised
MetaEnd(objs, name, r) ==
    [nodes |-> (name :> [attrs |-> r.attrs, locked |-> r.raised = ""]) @@ objs,
     calls |-> IF r.raised = ""
               THEN Append(r.calls, [fn |-> "LockItems", name |-> name])
               ELSE r.calls,
     done |-> r.done, raised |-> r.raised]

\* create_metadata_node(context, data, name) on the objects of context: the
\* objects afterwards, the host calls made and the error raised, if any
create_metadata_node(objs, data, name, host) ==
    MetaEnd(objs, name,
        MetaLoop(data,
            IF name \in DOMAIN objs
            THEN [attrs |-> objs[name].attrs,
                  calls |-> <<[fn |-> "UnlockItems", name |-> name]>>,
                  raised |-> "", done |-> 0]
            ELSE [attrs |-> <<>>,
                  calls |-> <<[fn |-> "add_object", name |-> name]>>,
                  raised |-> "", done |-> 0],
            host))

\* the entries of data: [section, key, value, type]
EntryTypes == {T_string, T_integer, <<"i", "n", "t">>}
EntryValues == {PyStr(<<"1">>), PyStr(<<"x">>)}
Entries == {<<PyStr(Section), PyStr(k), v, PyStr(t)>> :
                k \in Keys, v \in EntryValues, t \in EntryTypes}
NodeNames == {"meta"}

\* the context before the call: empty, or as an earlier call left it (with its
\* node locked, or unlocked after an error)
EarlierData == { <<>>,
                 << <<PyStr(Section), PyStr(<<"k">>), PyStr(<<"1">>), PyStr(T_string)>> >>,
                 << <<PyStr(Section), PyStr(<<"k">>), PyStr(<<"x">>), PyStr(T_integer)>> >> }
EarlierContexts ==
    {<<>>} \cup {create_metadata_node(<<>>, d, "meta",
                     [dup |-> "replace", strict |-> TRUE]).nodes : d \in EarlierData}

InitMeta ==
    /\ items = {} /\ hostCollapses = FALSE /\ copies = <<>> /\ files = <<>>
    /\ nodes \in EarlierContexts
    /\ \E data \in SeqUpTo(Entries, MaxData), name \in NodeNames :
          last = [op |-> "create_metadata_node", state |-> "called",
                  data |-> data, name |-> name]

\* the record of a call of create_metadata_node that answered r
MetaCall(call, objs, r) ==
    [call EXCEPT !.state = IF r.raised = "" THEN "returned" ELSE "raised"] @@
        [existed |-> call.name \in DOMAIN objs,
         was_locked |-> call.name \in DOMAIN objs /\ objs[call.name].locked,
         before |-> IF call.name \in DOMAIN objs THEN objs[call.name].attrs ELSE <<>>,
         calls |-> r.calls, done |-> r.done, raised |-> r.raised]

MetaApply(r) ==
    /\ nodes' = r.nodes
    /\ last' = MetaCall(last, nodes, r)

Call_create_metadata_node ==
    /\ last.op = "create_metadata_node" /\ last.state = "called"
    /\ \E host \in HostChoices :
          MetaApply(create_metadata_node(nodes, last.data, last.name, host))
    /\ UNCHANGED <<items, hostCollapses, copies, files>>

NextMeta == Call_create_metadata_node
SpecMeta == InitMeta /\ [][NextMeta]_vars

\* ---------------------------------------------------- export_context_with_deps
\* os.path.exists(path) and os.path.isdir(path) on the file system fs
path_exists(fs, path) == path \in DOMAIN fs
path_isdir(fs, path) == path \in DOMAIN fs /\ fs[path].kind = "dir"

\* ix.export_context_as_project_with_dependencies(context, file_p): the file
\* holds the context afterwards
ix_export(fs, context, file_p) ==
    (file_p :> [kind |-> "file", holds |-> context]) @@ fs

\* faulty variant, for comparison: an existing file is overwritten whatever overwrite says
export_context_with_deps_Overwrites(fs, context, dest, overwrite) ==
    IF ~path_exists(fs, dest) \/ ~path_isdir(fs, dest)
    THEN [files |-> fs, calls |-> <<>>, raised |-> "AssertionError", result |-> None]
    ELSE [files |-> ix_export(fs, context, PathJoin(dest, context.name \o DotProject)),
          calls |-> <<[fn |-> "export", context |-> context,
                       file_p |-> PathJoin(dest, context.name \o DotProject)]>>,
          raised |-> "",
          result |-> PathJoin(dest, context.name \o DotProject)]

\* export_context_with_deps(context, dest, overwrite) on the file system fs
export_context_with_deps(fs, context, dest, overwrite) ==
    IF ~path_exists(fs, dest) \/ ~path_isdir(fs, dest)
    THEN [files |-> fs, calls |-> <<>>, raised |-> "AssertionError", result |-> None]
    ELSE IF path_exists(fs, PathJoin(dest, context.name \o DotProject)) /\ ~overwrite
    THEN [files |-> fs, calls |-> <<>>, raised |-> "IOError", result |-> None]
    ELSE [files |-> ix_export(fs, context, PathJoin(dest, context.name \o DotProject)),
          calls |-> <<[fn |-> "export", context |-> context,
                       file_p |-> PathJoin(dest, context.name \o DotProject)]>>,
          raised |-> "",
          result |-> PathJoin(dest, context.name \o DotProject)]

\* the contexts exported (two of one name), and the destinations: a directory,
\* a file, and a path where nothing is
ExportContexts == [name : { <<"c">>, <<"e">> }, rev : 1..MaxRevs]
DirPath == <<"/", "d">>
FilePath == <<"/", "f">>
NoPath == <<"/", "n">>
Dests == {DirPath, FilePath, NoPath}

\* the record of a call of export_context_with_deps that answered r
ExportCall(fs, context, dest, overwrite, r) ==
    [op |-> "export_context_with_deps",
     state |-> IF r.raised = "" THEN "returned" ELSE "raised",
     context |-> context, dest |-> dest, overwrite |-> overwrite,
     before |-> fs, calls |-> r.calls, raised |-> r.raised, result |-> r.result]

ExportApply(context, dest, overwrite, r) ==
    /\ files' = r.files
    /\ last' = ExportCall(files, context, dest, overwrite, r)

Call_export_context_with_deps ==
    /\ \E context \in ExportContexts, dest \in Dests, overwrite \in BOOLEAN :
          ExportApply(context, dest, overwrite,
                      export_context_with_deps(files, context, dest, overwrite))
    /\ UNCHANGED <<items, hostCollapses, copies, nodes>>

InitExport ==
    /\ items = {} /\ hostCollapses = FALSE /\ copies = <<>> /\ nodes = <<>>
    /\ files = (DirPath :> [kind |-> "dir"]) @@ (FilePath :> [kind |-> "file", holds |-> None])
    /\ last = NoCall

NextExport == Call_export_context_with_deps
SpecExport == InitExport /\ [][NextExport]_vars

\* ------------------------------------------------------------------ claims
\* the elements of a sequence of host calls made to function fn
CallsTo(calls, fn) == SelectSeq(calls, LAMBDA c : c.fn = fn)

\* the segments s1, ..., sn of a URL, given with the scheme or without
Segments(url) == Split(IF StartsWith(url, Scheme) THEN Drop(url, Len(Scheme) + 1) ELSE url)

\* project://s1/.../sk
PrefixUrl(segs, k) == Scheme \o Join(SubSeq(segs, 1, k))

\* the prefixes of segs, shortest first, that name no item of the namespace its
RECURSIVE MissingFrom(_, _, _, _)
MissingFrom(segs, k, its, collapses) ==
    IF k > Len(segs) THEN <<>>
    ELSE (IF ix_item_exists(PrefixUrl(segs, k), its, collapses) = None
          THEN <<Resolve(PrefixUrl(segs, k), collapses)>> ELSE <<>>)
         \o MissingFrom(segs, k + 1, its, collapses)

C2_UnknownTypeRaises ==
    (last.op = "set_custom_attr" /\ last.state # "called"
        /\ Lower(last.attr_type) \notin KnownTypes)
        => /\ last.state = "raised"
           /\ last.raised = "TypeError"
           /\ CallsTo(last.calls, "add_attribute") = <<>>
           /\ nodes["obj"].attrs = last.before

\* an unrecognized type name, on an item that has an attribute
C2_Witness ==
    /\ last.op = "set_custom_attr" /\ last.state = "raised"
    /\ last.attr_type = <<"I", "N", "T">>
    /\ last.before # <<>>
    /\ nodes["obj"].attrs = last.before

\* dest/<context name>.project
ExportPath(call) == call.dest \o Slash \o call.context.name \o DotProject

\* C3: export_context_with_deps(context, dest, overwrite): when the file
\* dest/<context name>.project exists and overwrite is False, IOError is raised,
\* the host export is not invoked and the file is unchanged; when the file does
\* not exist, or overwrite is True, the host export is invoked exactly once with
\* that path and that path is returned.
C3_ExportOrRefuse ==
    (last.op = "export_context_with_deps")
        => IF ExportPath(last) \in DOMAIN last.before /\ ~last.overwrite
           THEN /\ last.state = "raised" /\ last.raised = "IOError"
                /\ last.calls = <<>>
                /\ files = last.before
           ELSE /\ Len(last.calls) = 1
                /\ last.calls[1].file_p = ExportPath(last)
                /\ last.state = "returned"
                /\ last.result = ExportPath(last)

\* C3, amended: as C3 when dest is an existing directory; when dest does not
\* exist or is not a directory, AssertionError is raised, the host export is not
\* invoked and no file changes.
C3_ExportOrRefuseInDirectory ==
    (last.op = "export_context_with_deps")
        => IF last.dest \notin DOMAIN last.before \/ last.before[last.dest].kind # "dir"
           THEN /\ last.state = "raised" /\ last.raised = "AssertionError"
                /\ last.calls = <<>>
                /\ files = last.before
           ELSE C3_ExportOrRefuse

\* a refusal to overwrite the file an earlier call exported, and left as it was
C3_Witness ==
    /\ last.op = "export_context_with_deps" /\ last.raised = "IOError"
    /\ ExportPath(last) \in DOMAIN files
    /\ files[ExportPath(last)].holds # last.context
    /\ files[ExportPath(last)].holds.name = last.context.name

\* C4: when path does not contain $PDIR, pdir_to_path returns path unchanged,
\* for every path (relative or absolute) and every project_p.
C4_NoPdirUnchanged ==
    (last.op = "pdir_to_path" /\ last.state = "returned"
        /\ ~Contains(last.path, PDIR))
        => last.result = last.path

AsList(arg) == IF arg.is_list THEN arg.v ELSE <<arg.v>>

HasExternalDeps(c) == c.is_context /\ (c.ext_refs # <<>> \/ c.ext_sources # <<>>)

\* C5: contexts_are_atomic returns True if any of the contexts has external
\* dependencies, and False otherwise.
C5_TrueIffAnyDeps ==
    (last.op = "contexts_are_atomic" /\ last.state = "returned")
        => (last.result <=>
                \E i \in 1..Len(AsList(last.contexts)) :
                    HasExternalDeps(AsList(last.contexts)[i]))

\* whether a context is one the flags ask for
Wanted(c, project, abc, usd) ==
    /\ c.is_reference
    /\ \/ project /\ EndsWith(c.filename, DotProject)
       \/ abc /\ EndsWith(c.filename, DotAbc)
       \/ usd /\ EndsWith(c.filename, DotUsd)

\* C6: filter_contexts_to_references_only returns, without an error, exactly the
\* sub-sequence of its input (input order, every element at most once) of the
\* references whose file path ends with an extension whose flag is True; with
\* all three flags False it returns the empty list.
C6_FilterIsSubsequence ==
    (last.op = "filter_contexts_to_references_only" /\ last.state # "called")
        => /\ last.state = "returned"
           /\ last.result = SelectSeq(last.contexts,
                  LAMBDA c : Wanted(c, last.project, last.abc, last.usd))
           /\ (~last.project /\ ~last.abc /\ ~last.usd) => last.result = <<>>

\* a non-reference before a reference to f.abc.usd, asked for by its usd flag
C6_Witness ==
    /\ last.op = "filter_contexts_to_references_only" /\ last.state = "returned"
    /\ Len(last.contexts) = 2
    /\ ~last.contexts[1].is_reference
    /\ last.contexts[2].is_reference
    /\ last.contexts[2].filename = <<"f">> \o DotAbc \o DotUsd
    /\ last.abc /\ last.usd
    /\ last.result = <<last.contexts[2]>>

\* C7: create_metadata_node, on every call that returns normally: the node named
\* name exists and is locked; a node that existed is unlocked before any
\* attribute is set and none is created; a node is created only when none
\* existed; every entry of data is applied in list order; and locking the node
\* is the last host operation.
C7_UnlockSetLock ==
    (last.op = "create_metadata_node" /\ last.state = "returned")
        => LET adds == CallsTo(last.calls, "add_attribute")
           IN  /\ last.name \in DOMAIN nodes /\ nodes[last.name].locked
               /\ last.calls[1].fn = IF last.existed THEN "UnlockItems" ELSE "add_object"
               /\ Len(CallsTo(last.calls, "add_object")) = IF last.existed THEN 0 ELSE 1
               /\ Len(CallsTo(last.calls, "UnlockItems")) = IF last.existed THEN 1 ELSE 0
               /\ Len(adds) = Len(last.data)
               /\ \A i \in 1..Len(adds) :
                     /\ adds[i].section = last.data[i][1].s
                     /\ adds[i].key = last.data[i][2].s
               /\ last.calls[Len(last.calls)].fn = "LockItems"
               /\ Len(CallsTo(last.calls, "LockItems")) = 1

\* a locked node that existed, and two entries under different keys
C7_Witness ==
    /\ last.op = "create_metadata_node" /\ last.state = "returned"
    /\ last.was_locked
    /\ Len(last.data) = 2
    /\ last.data[1][2] # last.data[2][2]
    /\ nodes[last.name].locked

\* the setter that matches a host attribute type
SetterOf(otype) ==
    CASE otype = "TYPE_BOOL" -> "set_bool"
      [] otype = "TYPE_LONG" -> "set_long"
      [] otype = "TYPE_DOUBLE" -> "set_double"
      [] otype \in {"TYPE_STRING", "TYPE_FILE"} -> "set_string"
      [] otype = "TYPE_REFERENCE" -> "set_object"

Setters == {"set_bool", "set_long", "set_double", "set_string", "set_object"}

\* C8: set_custom_attr, for every recognized attr_type, writes the value with
\* the setter that matches the type of the host attribute it created (set_bool,
\* set_long with int(value), set_double with float(value), set_string), and
\* returns the attribute that was added.
C8_SetterMatchesType ==
    (last.op = "set_custom_attr" /\ last.state # "called"
        /\ Lower(last.attr_type) \in KnownTypes)
        => LET adds == CallsTo(last.calls, "add_attribute")
               sets == SelectSeq(last.calls, LAMBDA c : c.fn \in Setters)
           IN  /\ Len(adds) = 1
               /\ \A i \in 1..Len(sets) :
                     /\ sets[i].fn = SetterOf(adds[1].otype)
                     /\ adds[1].otype = "TYPE_LONG" => sets[i].arg.t = "int"
                     /\ adds[1].otype = "TYPE_DOUBLE" => sets[i].arg.t = "float"
               /\ last.state = "returned" => last.result = adds[1].key

\* the attributes named copied_from of the copy a call of copy_node made
Breadcrumbs(call) ==
    SelectSeq(copies[call.result].attrs, LAMBDA a : a.name = "copied_from")

\* C9: copy_node with leave_breadcrumb=True leaves on the copy an attribute
\* copied_from, in section breadcrumb_section, whose value is the full name of
\* the source node; with leave_breadcrumb=False no such attribute is created.
\* In both cases the destination context exists afterwards (created when it did
\* not exist) and holds the copy, made local.
C9_BreadcrumbIsSourceName ==
    (last.op = "copy_node")
        => /\ last.state = "returned"
           /\ IF last.leave_breadcrumb
              THEN /\ Len(Breadcrumbs(last)) = 1
                   /\ Breadcrumbs(last)[1].section = last.breadcrumb_section
                   /\ Breadcrumbs(last)[1].value = last.node.full_name
              ELSE Breadcrumbs(last) = <<>>
           /\ Resolve(last.dest_context_url, hostCollapses) \in items
           /\ copies[last.result].context = Resolve(last.dest_context_url, hostCollapses)
           /\ copies[last.result].local

\* the entry of data at which a call of create_metadata_node raised
FailingEntry(call) == call.data[call.done + 1]

====
